---- MODULE Spec2Model ----
(***************************************************************************)
(* Directory comparer (v1.py / v2.py): a local tree is fingerprinted once, *)
(* then every server of `servers` is connected to over SSH/SFTP, its       *)
(* remote tree is scanned recursively, the two snapshots are diffed with   *)
(* compare_files, the result is logged and, when auto_delete is set and    *)
(* the operator answers 'tak', the remote-only files are removed.          *)
(*                                                                         *)
(* A path string is modelled as the sequence of its "/"-separated          *)
(* components, so f"{path}/{name}" is Append(path, name) and               *)
(* f"{base}/{rel}" is base \o rel.  A byte string is a sequence of small   *)
(* naturals.  The digest is a small rolling hash with the same incremental *)
(* interface as hashlib (new / update / hexdigest).                        *)
(***************************************************************************)
EXTENDS Integers, Sequences, FiniteSets, TLC

VARIABLES
    \* ---- compare_directories: parameters and locals (v2.py 93-148)
    pc,            \* position in compare_directories
    auto_delete,   \* parameter auto_delete
    key_path,      \* parameter key_path: TRUE if given, FALSE if None
    source_files,  \* local snapshot, rel path -> [checksum]
    server,        \* loop variable: index into servers (0 before the loop)
    open,          \* servers whose SSH transport is currently connected
    sftp,          \* server the local `sftp` client belongs to (0: unbound)
    dest_files,    \* local dest_files (kept across iterations, as in Python)
    added, deleted, modified, unchanged,
    confirm,       \* local confirm: the operator's last answer
    \* ---- get_remote_files / recursive_list (v2.py 50-65)
    remoteFs,      \* files on the connected server: full path -> content
    files,         \* the dict under construction
    stack,         \* recursion stack of recursive_list frames
    \* ---- delete_remote_files (v2.py 81-91)
    todo,          \* paths of files_to_delete not yet iterated
    \* ---- observations of the run (history, not program state)
    attempts,      \* servers whose iteration was started, in order
    errLogged,     \* servers for which the except branch logged an error
    completed,     \* servers whose try block ran to its end
    localScans,    \* number of get_local_files calls
    \* ---- observations of the current iteration (cleared when it ends)
    raisedAt,      \* the call that raised inside the try block ("none")
    reportedNow,   \* the diff of this server was logged
    promptedNow,   \* input() was called for this server
    removeCalls,   \* the sftp.remove calls made
    nRemove,       \* their number
    \* ---- checksum readers (v2.py 22-39)
    cpc, content, offset, hash_func, fedLocal, fedRemote,
    local_digest, remote_digest, localReads, remoteReads

paramVars == <<auto_delete, key_path>>
diffVars == <<dest_files, added, deleted, modified, unchanged>>
scanVars == <<remoteFs, files, stack>>
histVars == <<attempts, errLogged, completed, localScans>>
iterVars == <<raisedAt, reportedNow, promptedNow, removeCalls, nRemove>>
mainVars == <<pc, paramVars, source_files, server, open, sftp, diffVars, confirm,
              scanVars, todo, histVars, iterVars>>
sumVars == <<cpc, content, offset, hash_func, fedLocal, fedRemote,
             local_digest, remote_digest, localReads, remoteReads>>
vars == <<mainVars, sumVars>>

-----------------------------------------------------------------------------
(* Bounds *)

NumServers == 3

MaxLen == 3

NumBytes == 2

-----------------------------------------------------------------------------
(* Checksum engine *)

ChunkSize == 4096

Min(a, b) == IF a < b THEN a ELSE b

Bytes == 0 .. (NumBytes - 1)

RECURSIVE SeqsUpTo(_)
SeqsUpTo(n) ==
    IF n = 0 THEN {<<>>}
    ELSE LET shorter == SeqsUpTo(n - 1)
         IN  shorter \cup {Append(s, b) : s \in {t \in shorter : Len(t) = n - 1}, b \in Bytes}

\* hashlib.new(hash_algorithm): the fresh accumulator
HashNew == 7

\* hash_func.update(chunk): fold the chunk's bytes into the accumulator
RECURSIVE HashUpdate(_, _)
HashUpdate(h, chunk) ==
    IF chunk = <<>> THEN h
    ELSE HashUpdate((h * 31 + Head(chunk) + 1) % 256, Tail(chunk))

HexDigit(n) ==
    <<"0", "1", "2", "3", "4", "5", "6", "7",
      "8", "9", "a", "b", "c", "d", "e", "f">>[n + 1]

\* hash_func.hexdigest(): lowercase hexadecimal, high digit first
HexDigest(h) == <<HexDigit(h \div 16), HexDigit(h % 16)>>

\* f.read(4096): at end of stream the empty string, otherwise between 1 and
\* 4096 of the bytes that follow the stream position
ReadResults(data, off) ==
    IF off >= Len(data) THEN {<<>>}
    ELSE {SubSeq(data, off + 1, off + n) : n \in 1 .. Min(ChunkSize, Len(data) - off)}

\* iter(lambda: f.read(4096), b''): the sentinel that ends the for loop
LocalLoopStops(chunk) == chunk = <<>>

RemoteStopsOnShortRead(data) == Len(data) < ChunkSize

\* `if not data: break`
RemoteLoopStops(data) == data = <<>>

\* The value a checksum reader returns for a file of the given content
FileDigest(data) == HexDigest(HashUpdate(HashNew, data))

\* State of the checksum readers while compare_directories is being modelled
SumIdle ==
    /\ cpc = "idle" /\ content = <<>> /\ offset = 0 /\ hash_func = HashNew
    /\ fedLocal = <<>> /\ fedRemote = <<>>
    /\ local_digest = <<>> /\ remote_digest = <<>>
    /\ localReads = <<>> /\ remoteReads = <<>>

\* calculate_local_checksum: one pass of the for loop (one f.read)
LocalRead ==
    /\ cpc = "local"
    /\ \E chunk \in ReadResults(content, offset) :
         /\ localReads' = Append(localReads, Len(chunk))
         /\ IF LocalLoopStops(chunk)
            THEN /\ local_digest' = HexDigest(hash_func)
                 /\ cpc' = "remote"
                 /\ offset' = 0
                 /\ hash_func' = HashNew
                 /\ fedLocal' = fedLocal
            ELSE /\ hash_func' = HashUpdate(hash_func, chunk)
                 /\ fedLocal' = fedLocal \o chunk
                 /\ offset' = offset + Len(chunk)
                 /\ UNCHANGED <<local_digest, cpc>>
    /\ UNCHANGED <<content, fedRemote, remote_digest, remoteReads>>

\* calculate_remote_checksum: one pass of the while loop (one f.read)
RemoteRead ==
    /\ cpc = "remote"
    /\ \E data \in ReadResults(content, offset) :
         /\ remoteReads' = Append(remoteReads, Len(data))
         /\ offset' = offset + Len(data)
         /\ IF RemoteLoopStops(data)
            THEN /\ remote_digest' = HexDigest(hash_func)
                 /\ cpc' = "done"
                 /\ UNCHANGED <<hash_func, fedRemote>>
            ELSE /\ hash_func' = HashUpdate(hash_func, data)
                 /\ fedRemote' = fedRemote \o data
                 /\ UNCHANGED <<remote_digest, cpc>>
    /\ UNCHANGED <<content, fedLocal, local_digest, localReads>>

-----------------------------------------------------------------------------
(* Trees and snapshots *)

\* remote_directory: the remote root, shared by all servers
remote_path == <<"remote", "destination", "path">>

\* Relative paths of the snapshots handed to compare_files
RelPaths == {<<"a.txt">>, <<"c.txt">>, <<"sub", "b.txt">>}

\* Relative paths of the trees that are scanned: a file at the root and a
\* file in a directory
ScanPaths == {<<"a.txt">>, <<"sub", "b.txt">>}

FileContents == {<<0>>, <<1>>}

\* A tree: relative path -> content, for the files that exist
Trees == UNION {[P -> FileContents] : P \in SUBSET ScanPaths}

EmptyMap == [x \in {} |-> x]

Servers == 1 .. NumServers

IsPrefix(p, q) == Len(p) <= Len(q) /\ SubSeq(q, 1, Len(p)) = p

\* The files of a server whose remote root holds `tree`: full path -> content
RemoteFiles(tree) ==
    [fp \in {remote_path \o rel : rel \in DOMAIN tree} |->
        tree[SubSeq(fp, Len(remote_path) + 1, Len(fp))]]

\* sftp.listdir_attr(path): the names directly under `path`
ListDir(fs, path) ==
    {fp[Len(path) + 1] : fp \in {q \in DOMAIN fs : IsPrefix(path, q) /\ Len(q) > Len(path)}}

\* S_ISDIR(entry.st_mode) for the entry whose full path is `full_path`
S_ISDIR(fs, full_path) ==
    \E q \in DOMAIN fs : IsPrefix(full_path, q) /\ Len(q) > Len(full_path)

\* The orders in which a listing may present a set of names
Orders(S) ==
    {o \in [1 .. Cardinality(S) -> S] : \A i, j \in DOMAIN o : o[i] = o[j] => i = j}

\* get_local_files on a local tree: rel path -> {'checksum': ...}
get_local_files(tree) ==
    [rel \in DOMAIN tree |-> [checksum |-> FileDigest(tree[rel])]]

-----------------------------------------------------------------------------
(* compare_files *)

Keys(snapshot) == DOMAIN snapshot

Added(source_set, dest_set) == source_set \ dest_set

DeletedAllRemote(source_set, dest_set) == dest_set

Deleted(source_set, dest_set) == dest_set \ source_set

ModifiedAnySource(src, dst) ==
    {file \in Keys(src) :
        file \notin Keys(dst) \/ src[file].checksum # dst[file].checksum}

Modified(src, dst) ==
    {file \in Keys(src) \cap Keys(dst) : src[file].checksum # dst[file].checksum}

compare_files(src, dst) ==
    [added    |-> Added(Keys(src), Keys(dst)),
     deleted  |-> Deleted(Keys(src), Keys(dst)),
     modified |-> Modified(src, dst)]

UnchangedIgnoringModified(src, dst, mod) == Keys(src) \cap Keys(dst)

\* set(source_files.keys()) & set(dest_files.keys()) - modified
\* (Python: binary - binds tighter than &)
UnchangedExpr(src, dst, mod) == Keys(src) \cap (Keys(dst) \ mod)

-----------------------------------------------------------------------------
(* compare_directories *)

Unset == <<"<unset>">>

\* What the operator may type at the prompt
Answers ==
    { <<"t", "a", "k">>, <<"T", "A", "K">>, <<"T", "a", "k">>,
      <<"n", "i", "e">>, <<"t", "a", "k", " ">>, <<>> }

\* str.lower(), character by character
LowerChar(c) ==
    CASE c = "T" -> "t" [] c = "A" -> "a" [] c = "K" -> "k"
      [] c = "N" -> "n" [] c = "I" -> "i" [] c = "E" -> "e"
      [] OTHER -> c

Lower(str) == [k \in DOMAIN str |-> LowerChar(str[k])]

GrantedUnlessNo(answer) == Lower(answer) # <<"n", "i", "e">>

\* confirm.lower() == 'tak'
Granted(answer) == Lower(answer) = <<"t", "a", "k">>

\* `if auto_delete and deleted:`
NeedsConfirmation(auto, del) == auto /\ del # {}

Put(f, k, v) == [x \in DOMAIN f \cup {k} |-> IF x = k THEN v ELSE f[x]]

Without(f, k) == [x \in DOMAIN f \ {k} |-> f[x]]

Top == stack[Len(stack)]

Pop == SubSeq(stack, 1, Len(stack) - 1)

Frame(path, relative_root) ==
    [path |-> path, relative_root |-> relative_root, listed |-> FALSE, entries |-> <<>>]

IterClear ==
    /\ raisedAt = "none"
    /\ reportedNow = FALSE
    /\ promptedNow = FALSE
    /\ removeCalls = {}
    /\ nRemove = 0

IterReset ==
    /\ raisedAt' = "none"
    /\ reportedNow' = FALSE
    /\ promptedNow' = FALSE
    /\ removeCalls' = {}
    /\ nRemove' = 0

\* The locals and observations before compare_directories has run
MainRest ==
    /\ server = 0
    /\ open = {}
    /\ sftp = 0
    /\ added = {} /\ deleted = {} /\ modified = {} /\ unchanged = {}
    /\ confirm = Unset
    /\ remoteFs = EmptyMap /\ files = EmptyMap /\ stack = <<>>
    /\ todo = {}
    /\ attempts = <<>>
    /\ errLogged = {} /\ completed = {}
    /\ localScans = 0
    /\ IterClear

MainInit ==
    /\ pc = "start"
    /\ auto_delete \in BOOLEAN
    /\ key_path \in BOOLEAN
    /\ source_files = EmptyMap
    /\ dest_files = EmptyMap
    /\ MainRest

\* An exception raised inside the try block by the call named `step`:
\* the frames of get_remote_files are unwound, control goes to `except`
Raise(step) ==
    /\ raisedAt' = step
    /\ pc' = "except"
    /\ files' = EmptyMap
    /\ stack' = <<>>

\* source_files = get_local_files(source_path)
ScanLocal ==
    /\ pc = "start"
    /\ localScans' = localScans + 1
    /\ \/ \E tree \in Trees :
            /\ source_files' = get_local_files(tree)
            /\ pc' = "loop"
       \/ /\ pc' = "aborted"      \* the local scan raised: the run ends
          /\ UNCHANGED source_files
    /\ UNCHANGED <<paramVars, server, open, sftp, diffVars, confirm, scanVars, todo,
                   attempts, errLogged, completed, iterVars>>

LoopNextRescan ==
    /\ pc = "loop"
    /\ IF server < NumServers
       THEN /\ server' = server + 1
            /\ attempts' = Append(attempts, server + 1)
            /\ \E tree \in Trees : source_files' = get_local_files(tree)
            /\ localScans' = localScans + 1
            /\ pc' = "connect"
       ELSE /\ pc' = "done"
            /\ UNCHANGED <<server, attempts, source_files, localScans>>
    /\ UNCHANGED <<paramVars, open, sftp, diffVars, confirm, scanVars, todo,
                   errLogged, completed, iterVars>>

\* `for server in servers:` with the header log line and the new SSHClient
LoopNext ==
    /\ pc = "loop"
    /\ IF server < NumServers
       THEN /\ server' = server + 1
            /\ attempts' = Append(attempts, server + 1)
            /\ pc' = "connect"
       ELSE /\ pc' = "done"
            /\ UNCHANGED <<server, attempts>>
    /\ UNCHANGED <<paramVars, source_files, open, sftp, diffVars, confirm, scanVars,
                   todo, errLogged, completed, localScans, iterVars>>

\* `if key_path:` RSAKey.from_private_key_file and ssh.connect with the key,
\* `else:` ssh.connect with the password; each call may raise
Connect ==
    /\ pc = "connect"
    /\ \/ /\ open' = open \cup {server}
          /\ pc' = "open_sftp"
          /\ UNCHANGED <<raisedAt, files, stack>>
       \/ /\ key_path
          /\ Raise("from_private_key_file")
          /\ UNCHANGED open
       \/ /\ Raise("connect")
          /\ UNCHANGED open
    /\ UNCHANGED <<paramVars, source_files, server, sftp, diffVars, confirm, remoteFs,
                   todo, histVars, reportedNow, promptedNow, removeCalls, nRemove>>

\* sftp = ssh.open_sftp(), then the entry into get_remote_files:
\* files = {} and the first call recursive_list(base_path)
OpenSftp ==
    /\ pc = "open_sftp"
    /\ \/ /\ sftp' = server
          /\ \E tree \in Trees : remoteFs' = RemoteFiles(tree)
          /\ files' = EmptyMap
          /\ stack' = <<Frame(remote_path, <<>>)>>
          /\ pc' = "scan"
          /\ UNCHANGED raisedAt
       \/ /\ Raise("open_sftp")
          /\ UNCHANGED <<sftp, remoteFs>>
    /\ UNCHANGED <<paramVars, source_files, server, open, diffVars, confirm, todo,
                   histVars, reportedNow, promptedNow, removeCalls, nRemove>>

\* recursive_list: `sftp.listdir_attr(path)` of the innermost call
ScanList ==
    /\ pc = "scan"
    /\ stack # <<>>
    /\ ~Top.listed
    /\ \/ /\ \E o \in Orders(ListDir(remoteFs, Top.path)) :
               stack' = Append(Pop, [Top EXCEPT !.listed = TRUE, !.entries = o])
          /\ UNCHANGED <<pc, raisedAt, files>>
       \/ Raise("listdir_attr")
    /\ UNCHANGED <<paramVars, source_files, server, open, sftp, diffVars, confirm,
                   remoteFs, todo, histVars, reportedNow, promptedNow, removeCalls, nRemove>>

ScanEntrySkipUnreadable ==
    /\ pc = "scan"
    /\ stack # <<>>
    /\ Top.listed
    /\ Top.entries # <<>>
    /\ LET name      == Head(Top.entries)
           full_path == Append(Top.path, name)
           rel_path  == Append(Top.relative_root, name)
           rest      == Append(Pop, [Top EXCEPT !.entries = Tail(Top.entries)])
       IN  IF S_ISDIR(remoteFs, full_path)
           THEN /\ stack' = Append(rest, Frame(full_path, rel_path))
                /\ UNCHANGED <<pc, raisedAt, files>>
           ELSE \/ /\ files' = Put(files, rel_path,
                                   [checksum  |-> FileDigest(remoteFs[full_path]),
                                    full_path |-> full_path])
                   /\ stack' = rest
                   /\ UNCHANGED <<pc, raisedAt>>
                \/ /\ raisedAt' = "read"
                   /\ stack' = rest
                   /\ UNCHANGED <<pc, files>>
    /\ UNCHANGED <<paramVars, source_files, server, open, sftp, diffVars, confirm,
                   remoteFs, todo, histVars, reportedNow, promptedNow, removeCalls, nRemove>>

\* recursive_list: one pass of `for entry in ...` of the innermost call;
\* for a file, calculate_remote_checksum opens and reads it
ScanEntry ==
    /\ pc = "scan"
    /\ stack # <<>>
    /\ Top.listed
    /\ Top.entries # <<>>
    /\ LET name      == Head(Top.entries)
           full_path == Append(Top.path, name)
           rel_path  == Append(Top.relative_root, name)
           rest      == Append(Pop, [Top EXCEPT !.entries = Tail(Top.entries)])
       IN  IF S_ISDIR(remoteFs, full_path)
           THEN /\ stack' = Append(rest, Frame(full_path, rel_path))
                /\ UNCHANGED <<pc, raisedAt, files>>
           ELSE \/ /\ files' = Put(files, rel_path,
                                   [checksum  |-> FileDigest(remoteFs[full_path]),
                                    full_path |-> full_path])
                   /\ stack' = rest
                   /\ UNCHANGED <<pc, raisedAt>>
                \/ Raise("read")
    /\ UNCHANGED <<paramVars, source_files, server, open, sftp, diffVars, confirm,
                   remoteFs, todo, histVars, reportedNow, promptedNow, removeCalls, nRemove>>

\* recursive_list: the for loop of the innermost call is exhausted
ScanReturn ==
    /\ pc = "scan"
    /\ stack # <<>>
    /\ Top.listed
    /\ Top.entries = <<>>
    /\ stack' = Pop
    /\ pc' = IF Len(stack) = 1 THEN "compare" ELSE "scan"
    /\ UNCHANGED <<paramVars, source_files, server, open, sftp, diffVars, confirm,
                   remoteFs, files, todo, histVars, iterVars>>

\* dest_files = get_remote_files(...) returns; compare_files; the
\* classifications are logged; `unchanged` is derived and logged
Compare ==
    /\ pc = "compare"
    /\ LET diff == compare_files(source_files, files)
       IN  /\ dest_files' = files
           /\ added' = diff.added
           /\ deleted' = diff.deleted
           /\ modified' = diff.modified
           /\ unchanged' = UnchangedExpr(source_files, files, diff.modified)
           /\ pc' = IF NeedsConfirmation(auto_delete, diff.deleted)
                    THEN "prompt" ELSE "sftp_close"
    /\ files' = EmptyMap
    /\ reportedNow' = TRUE
    /\ UNCHANGED <<paramVars, source_files, server, open, sftp, confirm, remoteFs, stack,
                   todo, histVars, raisedAt, promptedNow, removeCalls, nRemove>>

\* confirm = input(...); `if confirm.lower() == 'tak'`
Prompt ==
    /\ pc = "prompt"
    /\ promptedNow' = TRUE
    /\ \/ /\ \E answer \in Answers :
               /\ confirm' = answer
               /\ IF Granted(answer)
                  THEN /\ todo' = deleted
                       /\ pc' = "delete"
                  ELSE /\ pc' = "sftp_close"
                       /\ UNCHANGED todo
          /\ UNCHANGED <<raisedAt, files, stack>>
       \/ /\ Raise("input")
          /\ UNCHANGED <<confirm, todo>>
    /\ UNCHANGED <<paramVars, source_files, server, open, sftp, diffVars, remoteFs,
                   histVars, reportedNow, removeCalls, nRemove>>

\* The outcomes sftp.remove can have on the session `sftp` holds
RemoveOutcomes ==
    IF sftp = server /\ server \in open
    THEN {"removed", "not_found", "error"}
    ELSE {"error"}

DeleteOneAbortOnError ==
    /\ pc = "delete"
    /\ todo # {}
    /\ \E file \in todo, outcome \in RemoveOutcomes :
         LET remote_file_path == remote_path \o file
         IN  /\ removeCalls' = removeCalls \cup
                    {[session |-> sftp, path |-> remote_file_path, outcome |-> outcome]}
             /\ nRemove' = nRemove + 1
             /\ remoteFs' = IF outcome = "error" THEN remoteFs
                            ELSE Without(remoteFs, remote_file_path)
             /\ IF outcome = "error"
                THEN /\ Raise("remove")
                     /\ todo' = {}
                ELSE /\ todo' = todo \ {file}
                     /\ UNCHANGED <<pc, raisedAt, files, stack>>
    /\ UNCHANGED <<paramVars, source_files, server, open, sftp, diffVars, confirm,
                   histVars, reportedNow, promptedNow>>

\* delete_remote_files: one pass of `for file in files_to_delete`.
\* "removed": the file is gone; "not_found": another process removed it
\* first (FileNotFoundError, logged); "error": any other exception, logged.
DeleteOne ==
    /\ pc = "delete"
    /\ todo # {}
    /\ \E file \in todo, outcome \in RemoveOutcomes :
         LET remote_file_path == remote_path \o file
         IN  /\ removeCalls' = removeCalls \cup
                    {[session |-> sftp, path |-> remote_file_path, outcome |-> outcome]}
             /\ nRemove' = nRemove + 1
             /\ remoteFs' = IF outcome = "error" THEN remoteFs
                            ELSE Without(remoteFs, remote_file_path)
             /\ todo' = todo \ {file}
    /\ UNCHANGED <<pc, paramVars, source_files, server, open, sftp, diffVars, confirm,
                   files, stack, histVars, raisedAt, reportedNow, promptedNow>>

\* delete_remote_files returns
DeleteReturn ==
    /\ pc = "delete"
    /\ todo = {}
    /\ pc' = "sftp_close"
    /\ UNCHANGED <<paramVars, source_files, server, open, sftp, diffVars, confirm,
                   scanVars, todo, histVars, iterVars>>

\* sftp.close(), the last statement of the try block
SftpClose ==
    /\ pc = "sftp_close"
    /\ \/ /\ pc' = "finally"
          /\ completed' = completed \cup {server}
          /\ UNCHANGED <<raisedAt, files, stack>>
       \/ /\ Raise("sftp_close")
          /\ UNCHANGED completed
    /\ UNCHANGED <<paramVars, source_files, server, open, sftp, diffVars, confirm,
                   remoteFs, todo, attempts, errLogged, localScans,
                   reportedNow, promptedNow, removeCalls, nRemove>>

ExceptReraise ==
    /\ pc = "except"
    /\ errLogged' = errLogged \cup {server}
    /\ pc' = "aborted"
    /\ open' = open \ {server}
    /\ remoteFs' = EmptyMap
    /\ UNCHANGED <<paramVars, source_files, server, sftp, diffVars, confirm,
                   files, stack, todo, attempts, completed, localScans, iterVars>>

\* `except Exception as e:` logs the error for this server
Except ==
    /\ pc = "except"
    /\ errLogged' = errLogged \cup {server}
    /\ pc' = "finally"
    /\ UNCHANGED <<paramVars, source_files, server, open, sftp, diffVars, confirm,
                   scanVars, todo, attempts, completed, localScans, iterVars>>

FinallyOnlyOnSuccess ==
    /\ pc = "finally"
    /\ open' = IF raisedAt = "none" THEN open \ {server} ELSE open
    /\ remoteFs' = EmptyMap
    /\ IterReset
    /\ pc' = "loop"
    /\ UNCHANGED <<paramVars, source_files, server, sftp, diffVars, confirm,
                   files, stack, todo, histVars>>

\* `finally: ssh.close()`: the transport of this server's client is closed
\* (closing a client that never connected changes nothing).  The iteration
\* ends: its observations are cleared and the server's files are no longer
\* looked at.
Finally ==
    /\ pc = "finally"
    /\ open' = open \ {server}
    /\ remoteFs' = EmptyMap
    /\ IterReset
    /\ pc' = "loop"
    /\ UNCHANGED <<paramVars, source_files, server, sftp, diffVars, confirm,
                   files, stack, todo, histVars>>

Next ==
    \/ ScanLocal
    \/ LoopNext
    \/ Connect
    \/ OpenSftp
    \/ ScanList
    \/ ScanEntry
    \/ ScanReturn
    \/ Compare
    \/ Prompt
    \/ DeleteOne
    \/ DeleteReturn
    \/ SftpClose
    \/ Except
    \/ Finally

Init == MainInit /\ SumIdle

Spec == Init /\ [][Next /\ UNCHANGED sumVars]_vars

-----------------------------------------------------------------------------
(* compare_files and the derived `unchanged` on arbitrary snapshots *)

Checksums == {FileDigest(c) : c \in FileContents}

\* The dicts get_local_files can return over RelPaths
LocalSnapshots ==
    UNION {[P -> [checksum : Checksums]] : P \in SUBSET RelPaths}

\* The dicts get_remote_files can return over RelPaths
RemoteSnapshots ==
    UNION {{[rel \in P |-> [checksum |-> c[rel], full_path |-> remote_path \o rel]] :
               c \in [P -> Checksums]} : P \in SUBSET RelPaths}

InitDiff ==
    /\ pc = "diff"
    /\ auto_delete = FALSE
    /\ key_path = FALSE
    /\ source_files \in LocalSnapshots
    /\ dest_files \in RemoteSnapshots
    /\ MainRest
    /\ SumIdle

\* added, deleted, modified = compare_files(source_files, dest_files) and
\* unchanged = set(source_files.keys()) & set(dest_files.keys()) - modified
DiffApply ==
    /\ pc = "diff"
    /\ LET diff == compare_files(source_files, dest_files)
       IN  /\ added' = diff.added
           /\ deleted' = diff.deleted
           /\ modified' = diff.modified
           /\ unchanged' = UnchangedExpr(source_files, dest_files, diff.modified)
    /\ pc' = "diffed"
    /\ UNCHANGED <<paramVars, source_files, dest_files, server, open, sftp, confirm,
                   scanVars, todo, histVars, iterVars, sumVars>>

SpecDiff == InitDiff /\ [][DiffApply]_vars

-----------------------------------------------------------------------------
(* The two checksum readers on the same content *)

InitChecksum ==
    /\ pc = "checksum"
    /\ auto_delete = FALSE
    /\ key_path = FALSE
    /\ source_files = EmptyMap
    /\ dest_files = EmptyMap
    /\ MainRest
    /\ cpc = "local"
    /\ content \in SeqsUpTo(MaxLen)
    /\ offset = 0
    /\ hash_func = HashNew
    /\ fedLocal = <<>> /\ fedRemote = <<>>
    /\ local_digest = <<>> /\ remote_digest = <<>>
    /\ localReads = <<>> /\ remoteReads = <<>>

NextChecksum ==
    \/ LocalRead
    \/ RemoteRead

SpecChecksum == InitChecksum /\ [][NextChecksum /\ UNCHANGED mainVars]_vars

-----------------------------------------------------------------------------
(* Claims *)

DisjointPair(A, B) == A \cap B = {}

\* C1: compare_files classifies every path of keys(S) \cup keys(D) into
\* exactly one of added, deleted, modified, unchanged, with unchanged =
\* (keys(S) \cap keys(D)) - modified: the four sets are pairwise disjoint
\* and their union is keys(S) \cup keys(D).
C1_Partition ==
    pc = "diffed" =>
        LET S == Keys(source_files)
            D == Keys(dest_files)
            U == (S \cap D) \ modified
        IN  /\ DisjointPair(added, deleted)
            /\ DisjointPair(added, modified)
            /\ DisjointPair(deleted, modified)
            /\ DisjointPair(added, U)
            /\ DisjointPair(deleted, U)
            /\ DisjointPair(modified, U)
            /\ added \cup deleted \cup modified \cup U = S \cup D

\* The scenario of the spec: b.txt only local, c.txt only remote, a.txt equal
C1_Witness ==
    /\ pc = "diffed"
    /\ added = {<<"sub", "b.txt">>}
    /\ deleted = {<<"c.txt">>}
    /\ modified = {}
    /\ Keys(source_files) \cap Keys(dest_files) = {<<"a.txt">>}

\* C9: the unchanged set compare_directories derives equals
\* (keys(S) \cap keys(D)) - modified, and holds no modified path.
C9_Unchanged ==
    pc = "diffed" =>
        /\ unchanged = (Keys(source_files) \cap Keys(dest_files)) \ modified
        /\ unchanged \cap modified = {}

C9_Witness ==
    /\ pc = "diffed"
    /\ modified = {<<"a.txt">>}
    /\ unchanged = {<<"sub", "b.txt">>}
    /\ deleted = {<<"c.txt">>}

EndsWithZero(reads) ==
    /\ reads # <<>>
    /\ reads[Len(reads)] = 0
    /\ \A k \in 1 .. (Len(reads) - 1) : reads[k] \in 1 .. ChunkSize

\* C8: whatever way the stream splits the content into reads, each reader
\* stops only at a zero-length read and has then fed the digest exactly the
\* content, in order; the digest is that of the whole content, so the local
\* and the remote checksum of the same content are equal.
C8_Checksum ==
    /\ fedLocal = SubSeq(content, 1, Len(fedLocal))
    /\ fedRemote = SubSeq(content, 1, Len(fedRemote))
    /\ cpc \in {"remote", "done"} =>
          /\ EndsWithZero(localReads)
          /\ fedLocal = content
          /\ local_digest = FileDigest(content)
    /\ cpc = "done" =>
          /\ EndsWithZero(remoteReads)
          /\ fedRemote = content
          /\ remote_digest = FileDigest(content)
          /\ remote_digest = local_digest

\* Both readers finished a three-byte content that was split differently
C8_Witness ==
    /\ cpc = "done"
    /\ Len(content) = 3
    /\ localReads = <<1, 2, 0>>
    /\ remoteReads = <<2, 1, 0>>

\* Every spelling of 'tak' in upper and lower case
AffirmativeAnswers ==
    {<<x, y, z>> : x \in {"t", "T"}, y \in {"a", "A"}, z \in {"k", "K"}}

\* C2: sftp.remove is called for a target only when auto_delete is true,
\* the deleted set is non-empty, the operator was prompted for this target
\* and answered 'tak' in some letter case; a prompt that raised leads to no
\* remote delete.
C2_DeleteGated ==
    (pc = "delete" \/ nRemove > 0 \/ removeCalls # {}) =>
        /\ auto_delete
        /\ deleted # {}
        /\ promptedNow
        /\ confirm \in AffirmativeAnswers
        /\ raisedAt # "input"

C2_Witness ==
    /\ pc = "delete"
    /\ nRemove = 1
    /\ confirm = <<"T", "A", "K">>
    /\ server = 2

\* C3: once the local scan has succeeded the run ends only after every
\* server was attempted, in order; a server whose try block raised has its
\* error logged (and only such a server has), every other server ran to the
\* end of its try block and had its diff logged.
C3_AllTargetsAttempted ==
    /\ attempts = [k \in 1 .. server |-> k]
    /\ pc = "aborted" => (server = 0 /\ source_files = EmptyMap)
    /\ pc = "done" => (server = NumServers /\ completed \cup errLogged = Servers)
    /\ pc \in {"loop", "done"} => completed \cup errLogged = 1 .. server
    /\ completed \cap errLogged = {}
    /\ pc = "except" => raisedAt # "none"
    /\ pc = "finally" =>
          /\ (raisedAt # "none") <=> (server \in errLogged)
          /\ raisedAt = "none" => (reportedNow /\ server \in completed)

C3_Witness ==
    /\ pc = "done"
    /\ NumServers >= 3
    /\ errLogged = {2}
    /\ completed = Servers \ {2}

\* C4: at most the current server's session is open; none is open when the
\* next server is about to be connected to, between iterations, or after
\* the run.
C4_SessionReleased ==
    /\ open \subseteq {server}
    /\ pc \in {"start", "loop", "connect", "done", "aborted"} => open = {}

\* A session was opened for the server, its iteration raised, and the
\* iteration is over
C4_Witness ==
    /\ pc = "loop"
    /\ server \in errLogged
    /\ sftp = server
    /\ open = {}

AttemptedPaths == {r.path : r \in removeCalls}

\* C5: delete_remote_files calls sftp.remove exactly once for each path it
\* was given, whatever the outcomes, and returns without raising.
C5_DeleteAllPaths ==
    /\ raisedAt # "remove"
    /\ nRemove = Cardinality(AttemptedPaths)
    /\ pc = "delete" =>
          /\ todo \subseteq deleted
          /\ AttemptedPaths = {remote_path \o f : f \in deleted \ todo}
    /\ (nRemove > 0 /\ pc # "delete") =>
          AttemptedPaths = {remote_path \o f : f \in deleted}

C5_Witness ==
    /\ pc = "sftp_close"
    /\ nRemove = 2
    /\ \E r \in removeCalls : r.outcome = "not_found"
    /\ \E r \in removeCalls : r.outcome = "error"

\* The snapshot a complete scan of the files `fs` yields
SnapshotOf(fs) ==
    [rel \in {SubSeq(fp, Len(remote_path) + 1, Len(fp)) : fp \in DOMAIN fs} |->
        [checksum  |-> FileDigest(fs[remote_path \o rel]),
         full_path |-> remote_path \o rel]]

\* C6: when a listing or a read of the remote scan raises, the scan ends
\* there: no diff is logged for the server, no prompt and no remote delete
\* happen; a snapshot that is diffed is the complete one.
C6_ScanAllOrNothing ==
    /\ raisedAt \in {"listdir_attr", "read"} =>
          /\ pc \in {"except", "finally"}
          /\ ~reportedNow
          /\ ~promptedNow
          /\ nRemove = 0
    /\ (reportedNow /\ nRemove = 0) => dest_files = SnapshotOf(remoteFs)

\* A read failed on a server that holds both files, neither of them local
C6_Witness ==
    /\ pc = "finally"
    /\ raisedAt = "read"
    /\ Cardinality(DOMAIN remoteFs) = 2
    /\ source_files = EmptyMap
    /\ auto_delete

\* C7: get_local_files runs once, before any server is attempted, and
\* source_files never changes afterwards.
C7_LocalSnapshotFixed ==
    /\ [](/\ localScans <= 1
          /\ pc # "start" => localScans = 1
          /\ pc = "start" => (server = 0 /\ attempts = <<>> /\ open = {}))
    /\ [][pc # "start" => source_files' = source_files]_vars

\* The last server had files removed after an earlier server failed
C7_Witness ==
    /\ pc = "finally"
    /\ server = NumServers
    /\ nRemove > 0
    /\ errLogged # {}
    /\ completed # {}
    /\ source_files # EmptyMap

\* C10: every sftp.remove goes to the current server's own open session,
\* for remote_path joined with a relative path that the scan of this
\* iteration found on the server and that the local snapshot does not hold.
C10_DeleteOnlyRemoteOnly ==
    \A r \in removeCalls :
        /\ r.session = server
        /\ server \in open
        /\ reportedNow
        /\ r.path \notin {remote_path \o rel : rel \in Keys(source_files)}
        /\ \E rel \in Keys(dest_files) \ Keys(source_files) :
              /\ r.path = remote_path \o rel
              /\ dest_files[rel].full_path = r.path

C10_Witness ==
    /\ server = 2
    /\ 1 \in completed
    /\ source_files # EmptyMap
    /\ \E r \in removeCalls : r.outcome = "removed" /\ r.path = remote_path \o <<"sub", "b.txt">>

====
